---- MODULE Spec2Model ----
(***************************************************************************)
(* Model of the product-image synchronisation run of image-uploader:      *)
(* ShopwareClient (src/src/shopware.ts), ImageGenerator                    *)
(* (src/src/openai.ts) and main (src/src/index.ts).                        *)
(*                                                                         *)
(* One action is one awaited external call (HTTP request, generation       *)
(* call, operator prompt) together with the synchronous code that follows  *)
(* it up to the next awaited call.  The catalog server, the generation     *)
(* service, the file system and the operator are the environment: their    *)
(* answers are drawn from small sets.                                      *)
(***************************************************************************)
EXTENDS Integers, Sequences, FiniteSets, TLC

\* ---------------------------------------------------------------- bounds
MaxMissing == 2     \* products without a cover in the processing catalogs
MaxRuns == 2        \* successive runs of the program
MaxFaults == 2      \* failing external answers over a whole behaviour
MaxCalls == 4       \* method calls on a client driven call by call

\* ------------------------------------------------------ program constants
limit == 25         \* page size of fetchAllProducts

\* ---------------------------------------------------------- value spaces
NoToken == "null"                 \* accessToken: string | null = null
NoEntry == -1                     \* no file temp/<id>.png
NoBytes == -1                     \* media entity without uploaded file
EmptyBuf == 0                     \* a zero-length Buffer
OldImage == 1                     \* bytes of a file left by an earlier run
NullCover == 0                    \* coverId: null
PreCover == -1                    \* coverId of a product that has its cover
NoError == ""                     \* ProcessingResult without error
Unassigned == -2                  \* `let imageBuffer: Buffer;` before its assignment
NoCall == [op |-> "none", authed |-> FALSE, err |-> "", sent |-> 0]
NoListing == [total |-> -1, withoutImages |-> <<>>]
NoTotal == -1                     \* no page answered yet: no data.total

AuthFailedMsg == "Shopware auth failed"
NotAuthMsg == "Not authenticated. Call authenticate() first."
FetchFailedMsg == "Failed to fetch products"
CreateMediaFailedMsg == "Failed to create media entity"
UploadFailedMsg == "Failed to upload media file"
AssocFailedMsg == "Failed to create product-media association"
NoLocationMsg == "Failed to get product-media ID from response"
CoverFailedMsg == "Failed to set cover image"
NoImageDataMsg == "No image data returned from OpenAI"
ApiErrorMsg == "OpenAI API error"
WriteErrorMsg == "writeFileSync error"

Modes == {"batch", "interactive", "dryRun"}

\* The sizes of catalog of the pagination cases, around the page boundaries.
Totals == {0, 1, limit, limit + 1, 2 * limit - 1, 2 * limit}

Min(a, b) == IF a < b THEN a ELSE b

Range(s) == {s[k] : k \in 1..Len(s)}

IsPrefix(s, t) == Len(s) <= Len(t) /\ SubSeq(t, 1, Len(s)) = s

VARIABLES
  \* catalog server
  total,          \* number of products visible in the sales channel
  cover,          \* cover[p]: coverId of product p
  stableTotal,    \* the server reports the same total on every page
  media,          \* media entities, by id: the uploaded bytes or NoBytes
  assocs,         \* product-media associations, by id
  \* local file system
  cache,          \* cache[p]: bytes of temp/<p>.png or NoEntry
  \* ShopwareClient
  accessToken,
  \* fetchAllProducts
  page, allProducts, fetches,
  \* main
  mode, pc, listing, i, results, imageBuffer, hasExistingImage, stage,
  mediaId, productMediaId, fatalError,
  \* run bookkeeping
  run, faults, imgSeq, genCalls, uploadCalls, genOk,
  \* observations of the run, for the properties below
  steps, gens, answers, fails, hadEntry, cachedAtListing, batchOnly, lostWrites,
  writes, fetchFailed, authOk,
  reported,       \* data.total of the last page answered
  \* a client driven call by call
  lastCall, calls

serverVars == <<total, cover, stableTotal, media, assocs>>
listVars == <<page, allProducts, fetches>>
mainVars == <<mode, pc, listing, i, results, imageBuffer, hasExistingImage,
              stage, mediaId, productMediaId, fatalError>>
bookVars == <<run, faults, imgSeq, genCalls, uploadCalls, genOk>>
obsVars == <<steps, gens, answers, fails, hadEntry, cachedAtListing, batchOnly,
             lostWrites, writes, fetchFailed, reported, authOk>>
callVars == <<lastCall, calls>>
vars == <<serverVars, cache, accessToken, listVars, mainVars, bookVars, obsVars,
          callVars>>


\* ------------------------------------------------------------ ShopwareClient
\* `!this.accessToken`: null, undefined and the empty string are falsy.
Falsy(tok) == tok \in {"null", "undefined", ""}

\* getHeaders() without its check.
GetHeaders_NoCheck(tok) == NoError

\* getHeaders(): throws unless a token is held.
GetHeaders(tok) == IF Falsy(tok) THEN NotAuthMsg ELSE NoError

\* Answers of POST /api/oauth/token: a non-success status, or a success whose
\* body carries (or lacks) access_token.
AuthResponses ==
  { [ok |-> FALSE, access_token |-> "undefined"],
    [ok |-> TRUE, access_token |-> "bearer"],
    [ok |-> TRUE, access_token |-> "undefined"] }

\* authenticate() without its test of res.ok.
AuthenticateOp_IgnoreStatus(tok, resp) ==
  [err |-> NoError, token |-> resp.access_token]

\* authenticate(): the error thrown (or NoError) and the token held afterwards.
AuthenticateOp(tok, resp) ==
  IF ~resp.ok THEN [err |-> AuthFailedMsg, token |-> tok]
  ELSE [err |-> NoError, token |-> resp.access_token]

\* The server's page `pg` of a catalog of T products: products in id order,
\* each with its coverId.
PageData(T, cov, pg) ==
  [k \in 1..(IF Min(pg * limit, T) >= (pg - 1) * limit + 1
             THEN Min(pg * limit, T) - (pg - 1) * limit ELSE 0) |->
     [id |-> (pg - 1) * limit + k, coverId |-> cov[(pg - 1) * limit + k]]]

\* The exit test without its short-page disjunct.
ShouldBreak_TotalOnly(accLen, tot, dataLen) == accLen >= tot

\* The exit test with > for >=.
ShouldBreak_Strict(accLen, tot, dataLen) == accLen > tot \/ dataLen < limit

\* The loop exit test of fetchAllProducts.
ShouldBreak(accLen, tot, dataLen) == accLen >= tot \/ dataLen < limit

\* The page loop taking a non-success answer for the end of the catalog.
FetchPageOp_PartialOnFailure(tok, acc, resp) ==
  IF Falsy(tok)
    THEN [err |-> NotAuthMsg, sent |-> 0, acc |-> acc, done |-> FALSE]
  ELSE IF ~resp.ok
    THEN [err |-> NoError, sent |-> 1, acc |-> acc, done |-> TRUE]
  ELSE [err |-> NoError, sent |-> 1, acc |-> acc \o resp.data,
        done |-> Len(acc) + Len(resp.data) >= resp.total \/ Len(resp.data) < limit]

\* One iteration of the while loop of fetchAllProducts: the page request and
\* what follows it.  sent = 1 iff the request went out.
FetchPageOp(tok, acc, resp) ==
  IF GetHeaders(tok) # NoError
    THEN [err |-> NotAuthMsg, sent |-> 0, acc |-> acc, done |-> FALSE]
  ELSE IF ~resp.ok
    THEN [err |-> FetchFailedMsg, sent |-> 1, acc |-> acc, done |-> FALSE]
  ELSE [err |-> NoError, sent |-> 1, acc |-> acc \o resp.data,
        done |-> ShouldBreak(Len(acc) + Len(resp.data), resp.total, Len(resp.data))]

\* The listing returned without its filter.
WithoutCover_KeepsAll(acc) == [k \in 1..Len(acc) |-> acc[k].id]

\* allProducts.filter((p) => !p.coverId), as the list of product ids.
RECURSIVE WithoutCover(_)
WithoutCover(acc) ==
  IF acc = <<>> THEN <<>>
  ELSE (IF Head(acc).coverId = NullCover THEN <<Head(acc).id>> ELSE <<>>)
       \o WithoutCover(Tail(acc))

\* The value returned by fetchAllProducts.
ListingResult(acc) == [total |-> Len(acc), withoutImages |-> WithoutCover(acc)]

\* uploadMedia, step 1: POST /api/media with a fresh client-side id.
CreateMediaOp(tok, med, ok) ==
  IF GetHeaders(tok) # NoError
    THEN [err |-> NotAuthMsg, sent |-> 0, media |-> med, id |-> 0]
  ELSE IF ~ok
    THEN [err |-> CreateMediaFailedMsg, sent |-> 1, media |-> med, id |-> 0]
  ELSE [err |-> NoError, sent |-> 1, media |-> Append(med, NoBytes),
        id |-> Len(med) + 1]

\* Step 2 without the test of uploadRes.ok.
UploadBytesOp_IgnoreStatus(med, id, bytes, ok) ==
  [err |-> NoError, sent |-> 1,
   media |-> IF ok THEN [med EXCEPT ![id] = bytes] ELSE med]

\* uploadMedia, step 2: POST /api/_action/media/<id>/upload with the bytes.
UploadBytesOp(med, id, bytes, ok) ==
  IF ~ok THEN [err |-> UploadFailedMsg, sent |-> 1, media |-> med]
  ELSE [err |-> NoError, sent |-> 1, media |-> [med EXCEPT ![id] = bytes]]

\* Answers of POST /api/product-media: failure, or success with a location
\* header that is absent, ends in "/" or ends in the association's id.
AssocOutcomes == {"fail", "okNoHeader", "okTrailingSlash", "ok"}

\* The identifier taken to be the new association's whatever the header.
ProductMediaId_Assumed(out, newId) == newId

\* headers.get("location")?.split("/").pop(): 0 stands for undefined or "".
ProductMediaId(out, newId) == IF out = "ok" THEN newId ELSE 0

\* assignMediaToProduct, step 1.
CreateAssocOp(tok, asc, productId, mId, out) ==
  IF GetHeaders(tok) # NoError
    THEN [err |-> NotAuthMsg, sent |-> 0, assocs |-> asc, productMediaId |-> 0]
  ELSE IF out = "fail"
    THEN [err |-> AssocFailedMsg, sent |-> 1, assocs |-> asc, productMediaId |-> 0]
  ELSE LET created == Append(asc, [productId |-> productId, mediaId |-> mId])
           pmId == ProductMediaId(out, Len(asc) + 1)
       IN  [err |-> IF pmId = 0 THEN NoLocationMsg ELSE NoError, sent |-> 1,
            assocs |-> created, productMediaId |-> pmId]

\* Step 2 without the test of coverRes.ok.
PatchCoverOp_IgnoreStatus(cov, productId, pmId, ok) ==
  [err |-> NoError, sent |-> 1,
   cover |-> IF ok THEN [cov EXCEPT ![productId] = pmId] ELSE cov]

\* assignMediaToProduct, step 2: PATCH /api/product/<id> { coverId }.
PatchCoverOp(cov, productId, pmId, ok) ==
  IF ~ok THEN [err |-> CoverFailedMsg, sent |-> 1, cover |-> cov]
  ELSE [err |-> NoError, sent |-> 1, cover |-> [cov EXCEPT ![productId] = pmId]]

\* ------------------------------------------------------------ ImageGenerator
\* Answers of images.generate: the call throws, or returns a payload whose
\* b64_json is missing, empty, not base64 at all, or an image.
GenOutcomes == {"apiError", "noData", "emptyB64", "junkB64", "image"}

\* Buffer.from(b64, "base64"): characters outside the alphabet decode to
\* nothing; an image decodes to its bytes.
DecodeBase64(out, fresh) == IF out = "image" THEN fresh ELSE EmptyBuf

\* generate() without its test of b64.
GenerateOp_NoPayloadTest(out, fresh) ==
  IF out = "apiError" THEN [err |-> ApiErrorMsg, bytes |-> EmptyBuf]
  ELSE [err |-> NoError, bytes |-> DecodeBase64(out, fresh)]

\* generate(): the error thrown (or NoError) and the Buffer returned.
GenerateOp(out, fresh) ==
  IF out = "apiError" THEN [err |-> ApiErrorMsg, bytes |-> EmptyBuf]
  ELSE IF out \in {"noData", "emptyB64"}
    THEN [err |-> NoImageDataMsg, bytes |-> EmptyBuf]
  ELSE [err |-> NoError, bytes |-> DecodeBase64(out, fresh)]

\* --------------------------------------------------------------- file system
\* fs.writeFileSync(previewPath, imageBuffer): succeeds, fails before the file
\* is opened, or fails after the file was truncated.
WriteOutcomes == {"ok", "failNoFile", "failEmptyFile"}

\* The generated image is never written.
WriteFileOp_Skip(entry, bytes, wout) == [err |-> NoError, entry |-> entry]

WriteFileOp(entry, bytes, wout) ==
  IF wout = "ok" THEN [err |-> NoError, entry |-> bytes]
  ELSE IF wout = "failNoFile" THEN [err |-> WriteErrorMsg, entry |-> entry]
  ELSE [err |-> WriteErrorMsg, entry |-> EmptyBuf]

\* ---------------------------------------------------------------- operator
\* Lines the operator may type, and ask()'s answer.trim().toLowerCase().
RawAnswers == {"y", " Y ", "n", "r", "q", "Q"}
Normalize(raw) ==
  CASE raw = " Y " -> "y"
    [] raw = "Q" -> "q"
    [] OTHER -> raw

\* ---------------------------------------------------------------------- main
Record(p, status, err) == [productId |-> p, status |-> status, error |-> err]

withoutImages == listing.withoutImages
product == withoutImages[i]

\* A failing external answer is taken only while the fault budget lasts.
Fault(isFault) ==
  /\ isFault => faults < MaxFaults
  /\ faults' = faults + (IF isFault THEN 1 ELSE 0)

\* Observation: the first failing external answer met while item i was processed.
NoteFail(name) ==
  fails' = IF name # "none" /\ fails[i] = "none"
             THEN [fails EXCEPT ![i] = name] ELSE fails

\* Observation: whether temp/<id>.png existed when item k was reached.
NoteVisit(k, w, cch) ==
  hadEntry' = IF k <= Len(w) THEN [hadEntry EXCEPT ![k] = cch[w[k]] # NoEntry]
              ELSE hadEntry

\* Observation: the catalog requests sent for item i, in order.
Step(name, sent) ==
  steps' = IF sent = 1 THEN [steps EXCEPT ![i] = Append(@, name)] ELSE steps

\* Observation: the operator's answers for item i, as ask() returned them.
Answered(a) == answers' = [answers EXCEPT ![i] = Append(@, a)]

\* The loop taking the interactive branch whatever the mode.
EnterItem_AlwaysAsks(k, w, cch) ==
  /\ i' = k
  /\ mediaId' = 0
  /\ productMediaId' = 0
  /\ IF k > Len(w)
       THEN /\ pc' = "done"
            /\ hasExistingImage' = FALSE
            /\ imageBuffer' = Unassigned
            /\ stage' = "none"
       ELSE LET has == cch[w[k]] # NoEntry IN
            /\ hasExistingImage' = has
            /\ stage' = "initial"
            /\ imageBuffer' = EmptyBuf
            /\ pc' = IF has THEN "askExisting" ELSE "askGenerate"

\* The batch branch generating whether or not the file exists.
EnterItem_AlwaysGenerate(k, w, cch) ==
  /\ i' = k
  /\ mediaId' = 0
  /\ productMediaId' = 0
  /\ IF k > Len(w)
       THEN /\ pc' = "done"
            /\ hasExistingImage' = FALSE
            /\ imageBuffer' = Unassigned
            /\ stage' = "none"
       ELSE LET has == cch[w[k]] # NoEntry IN
            /\ hasExistingImage' = has
            /\ stage' = "initial"
            /\ IF mode = "batch"
                 THEN /\ imageBuffer' = Unassigned
                      /\ pc' = "generate"
                 ELSE /\ imageBuffer' = EmptyBuf
                      /\ pc' = IF has THEN "askExisting" ELSE "askGenerate"

\* The head of the for loop for item k of list w, with the file system as cch:
\* the loop ends, or previewPath is probed and the code runs to its first await.
EnterItem(k, w, cch) ==
  /\ i' = k
  /\ mediaId' = 0
  /\ productMediaId' = 0
  /\ IF k > Len(w)
       THEN /\ pc' = "done"
            /\ hasExistingImage' = FALSE
            /\ imageBuffer' = Unassigned
            /\ stage' = "none"
       ELSE LET has == cch[w[k]] # NoEntry IN
            /\ hasExistingImage' = has
            /\ stage' = "initial"
            /\ IF mode = "batch"
                 THEN /\ imageBuffer' = IF has THEN cch[w[k]] ELSE Unassigned
                      /\ pc' = IF has THEN "createMedia" ELSE "generate"
                 ELSE /\ imageBuffer' = EmptyBuf
                      /\ pc' = IF has THEN "askExisting" ELSE "askGenerate"

\* The catch block leaving the loop.
FinishItem_AbortOnFailure(status, err, cch) ==
  /\ results' = Append(results, Record(product, status, err))
  /\ IF status = "failed"
       THEN /\ pc' = "done"
            /\ UNCHANGED <<i, mediaId, productMediaId, hasExistingImage,
                           imageBuffer, stage, hadEntry>>
       ELSE /\ EnterItem(i + 1, withoutImages, cch)
            /\ NoteVisit(i + 1, withoutImages, cch)

\* A `skipped` push without its `continue`.
FinishItem_NoContinue(status, err, cch) ==
  /\ results' = Append(results, Record(product, status, err))
  /\ IF status = "skipped"
       THEN /\ pc' = "createMedia"
            /\ UNCHANGED <<i, mediaId, productMediaId, hasExistingImage,
                           imageBuffer, stage, hadEntry>>
       ELSE /\ EnterItem(i + 1, withoutImages, cch)
            /\ NoteVisit(i + 1, withoutImages, cch)

\* results.push(...) followed by the next iteration of the loop.
FinishItem(status, err, cch) ==
  /\ results' = Append(results, Record(product, status, err))
  /\ EnterItem(i + 1, withoutImages, cch)
  /\ NoteVisit(i + 1, withoutImages, cch)

\* The item goes on to its next awaited call.
Goto(newPc, buf, stg, mid, pmid) ==
  /\ pc' = newPc
  /\ imageBuffer' = buf
  /\ stage' = stg
  /\ mediaId' = mid
  /\ productMediaId' = pmid
  /\ UNCHANGED <<i, hasExistingImage, results, hadEntry>>

\* The answer q handled like n.
QuitLoop_Skips == FinishItem("skipped", NoError, cache)

\* `break` out of the loop on the answer q.
QuitLoop ==
  /\ pc' = "done"
  /\ UNCHANGED <<i, hasExistingImage, results, imageBuffer, stage, mediaId,
                 productMediaId, hadEntry>>

\* await shopware.authenticate()
Authenticate(resp) ==
  /\ pc = "authenticate"
  /\ LET r == AuthenticateOp(accessToken, resp) IN
     /\ Fault(r.err # NoError \/ Falsy(r.token))
     /\ accessToken' = r.token
     /\ authOk' = (authOk \/ resp.ok)
     /\ IF r.err # NoError
          THEN pc' = "fatal" /\ fatalError' = r.err
          ELSE pc' = "fetch" /\ UNCHANGED fatalError
  /\ UNCHANGED <<serverVars, cache, listVars, mode, listing, i, results,
                 imageBuffer, hasExistingImage, stage, mediaId, productMediaId,
                 run, imgSeq, steps, gens, answers, genCalls, uploadCalls,
                 genOk, fails, hadEntry, cachedAtListing, batchOnly, lostWrites,
                 writes, fetchFailed, reported, lastCall, calls>>

\* The totals the server may report on a page.
ReportedTotals == IF stableTotal THEN {total} ELSE Totals \cup {total}

PageResponses ==
  {[ok |-> FALSE, total |-> 0, data |-> <<>>]} \cup
  {[ok |-> TRUE, total |-> t, data |-> PageData(total, cover, page)] :
     t \in ReportedTotals}

\* One page of fetchAllProducts; on the last page the listing is returned and
\* main runs on to the first await of the item loop (or to its end).
FetchPage(resp) ==
  /\ pc = "fetch"
  /\ LET r == FetchPageOp(accessToken, allProducts, resp) IN
     /\ Fault(r.sent = 1 /\ ~resp.ok)
     /\ r.sent = 0 => resp.ok /\ resp.total = total
     /\ fetches' = fetches + r.sent
     /\ fetchFailed' = (fetchFailed \/ (r.sent = 1 /\ ~resp.ok))
     /\ reported' = IF r.sent = 1 /\ resp.ok THEN resp.total ELSE reported
     /\ allProducts' = r.acc
     /\ IF r.err # NoError
          THEN /\ pc' = "fatal"
               /\ fatalError' = r.err
               /\ UNCHANGED <<page, listing, i, results, imageBuffer,
                              hasExistingImage, stage, mediaId, productMediaId,
                              steps, gens, answers, fails, hadEntry,
                              cachedAtListing>>
        ELSE IF ~r.done
          THEN /\ pc' = "fetch"
               /\ page' = page + 1
               /\ UNCHANGED <<fatalError, listing, i, results, imageBuffer,
                              hasExistingImage, stage, mediaId, productMediaId,
                              steps, gens, answers, fails, hadEntry,
                              cachedAtListing>>
        ELSE LET res == ListingResult(r.acc)
                 w == res.withoutImages IN
               /\ listing' = res
               /\ UNCHANGED <<page, fatalError, results>>
               /\ steps' = [k \in 1..Len(w) |-> <<>>]
               /\ gens' = [k \in 1..Len(w) |-> 0]
               /\ answers' = [k \in 1..Len(w) |-> <<>>]
               /\ fails' = [k \in 1..Len(w) |-> "none"]
               /\ cachedAtListing' = {p \in Range(w) : cache[p] # NoEntry}
               /\ IF Len(w) = 0 \/ mode = "dryRun"
                    THEN /\ pc' = "done"
                         /\ hadEntry' = [k \in 1..Len(w) |-> FALSE]
                         /\ UNCHANGED <<i, imageBuffer, hasExistingImage, stage,
                                        mediaId, productMediaId>>
                    ELSE /\ EnterItem(1, w, cache)
                         /\ hadEntry' = [k \in 1..Len(w) |->
                                           k = 1 /\ cache[w[1]] # NoEntry]
  /\ UNCHANGED <<serverVars, cache, accessToken, mode, run, imgSeq,
                 genCalls, uploadCalls, genOk, batchOnly, lostWrites, writes,
                 authOk, lastCall, calls>>

\* imageGen.generate(...) and fs.writeFileSync(previewPath, imageBuffer): the
\* batch branch, the interactive first generation and both regenerations.
Generate(out, wout) ==
  /\ pc = "generate"
  /\ LET g == GenerateOp(out, imgSeq + 1)
         f == WriteFileOp(cache[product], g.bytes, wout) IN
     /\ genCalls' = genCalls + 1
     /\ gens' = [gens EXCEPT ![i] = @ + 1]
     /\ NoteFail(IF out = "apiError" THEN "generate-api"
                 ELSE IF out \in {"noData", "emptyB64"} THEN "generate-nodata"
                 ELSE IF wout # "ok" THEN "write" ELSE "none")
     /\ IF g.err # NoError
          THEN /\ wout = "ok"
               /\ Fault(TRUE)
               /\ UNCHANGED <<cache, imgSeq, genOk, writes, lostWrites>>
               /\ FinishItem("failed", g.err, cache)
          ELSE /\ Fault(out # "image" \/ wout # "ok")
               /\ imgSeq' = imgSeq + 1
               /\ genOk' = [genOk EXCEPT ![product] = @ + 1]
               /\ writes' = writes + 1
               /\ lostWrites' = IF wout = "failNoFile"
                                  THEN [lostWrites EXCEPT ![product] = @ + 1]
                                  ELSE lostWrites
               /\ cache' = [cache EXCEPT ![product] = f.entry]
               /\ IF f.err # NoError
                    THEN FinishItem("failed", f.err, cache')
                    ELSE Goto(IF mode = "batch" THEN "createMedia"
                              ELSE IF stage = "initial" THEN "askUpload"
                              ELSE "askConfirm",
                              g.bytes, stage, mediaId, productMediaId)
  /\ UNCHANGED <<serverVars, accessToken, listVars, mode, listing, fatalError,
                 run, steps, answers, uploadCalls, cachedAtListing,
                 batchOnly, fetchFailed, reported, authOk, lastCall, calls>>

\* "Image exists. Upload to Shopware? (y/n/r=regenerate/q=quit)"
AskExisting(raw) ==
  /\ pc = "askExisting"
  /\ LET uploadAnswer == Normalize(raw) IN
     /\ Answered(uploadAnswer)
     /\ IF uploadAnswer = "q" THEN QuitLoop
        ELSE IF uploadAnswer = "r"
          THEN Goto("generate", imageBuffer, "regen", mediaId, productMediaId)
        ELSE IF uploadAnswer = "y"
          THEN Goto("createMedia", cache[product], stage, mediaId, productMediaId)
        ELSE FinishItem("skipped", NoError, cache)
  /\ UNCHANGED <<serverVars, cache, accessToken, listVars, mode, listing,
                 fatalError, run, faults, imgSeq, steps, gens, genCalls,
                 uploadCalls, genOk, fails, cachedAtListing, batchOnly,
                 lostWrites, writes, fetchFailed, reported, authOk, lastCall, calls>>

\* "Generate image? (y/n/q=quit)"
AskGenerate(raw) ==
  /\ pc = "askGenerate"
  /\ LET generateAnswer == Normalize(raw) IN
     /\ Answered(generateAnswer)
     /\ IF generateAnswer = "q" THEN QuitLoop
        ELSE IF generateAnswer # "y"
          THEN FinishItem("skipped", NoError, cache)
        ELSE Goto("generate", imageBuffer, "initial", mediaId, productMediaId)
  /\ UNCHANGED <<serverVars, cache, accessToken, listVars, mode, listing,
                 fatalError, run, faults, imgSeq, steps, gens, genCalls,
                 uploadCalls, genOk, fails, cachedAtListing, batchOnly,
                 lostWrites, writes, fetchFailed, reported, authOk, lastCall, calls>>

\* "Upload this image to Shopware? (y/n/r=regenerate)"
AskUpload(raw) ==
  /\ pc = "askUpload"
  /\ LET uploadAnswer == Normalize(raw) IN
     /\ Answered(uploadAnswer)
     /\ IF uploadAnswer = "r"
          THEN Goto("generate", imageBuffer, "regen", mediaId, productMediaId)
        ELSE IF uploadAnswer # "y"
          THEN FinishItem("skipped", NoError, cache)
        ELSE Goto("createMedia", imageBuffer, stage, mediaId, productMediaId)
  /\ UNCHANGED <<serverVars, cache, accessToken, listVars, mode, listing,
                 fatalError, run, faults, imgSeq, steps, gens, genCalls,
                 uploadCalls, genOk, fails, cachedAtListing, batchOnly,
                 lostWrites, writes, fetchFailed, reported, authOk, lastCall, calls>>

\* The confirmation offering r once more.
AskConfirm_RegeneratesAgain(raw) ==
  /\ pc = "askConfirm"
  /\ LET confirm == Normalize(raw) IN
     /\ Answered(confirm)
     /\ IF confirm = "r"
          THEN Goto("generate", imageBuffer, "regen", mediaId, productMediaId)
        ELSE IF confirm # "y"
          THEN FinishItem("skipped", NoError, cache)
        ELSE Goto("createMedia", imageBuffer, stage, mediaId, productMediaId)
  /\ UNCHANGED <<serverVars, cache, accessToken, listVars, mode, listing,
                 fatalError, run, faults, imgSeq, steps, gens, genCalls,
                 uploadCalls, genOk, fails, cachedAtListing, batchOnly,
                 lostWrites, writes, fetchFailed, reported, authOk, lastCall,
                 calls>>

\* The confirmation taking every answer but n for a yes.
AskConfirm_YesUnlessNo(raw) ==
  /\ pc = "askConfirm"
  /\ LET confirm == Normalize(raw) IN
     /\ Answered(confirm)
     /\ IF confirm = "n"
          THEN FinishItem("skipped", NoError, cache)
          ELSE Goto("createMedia", imageBuffer, stage, mediaId, productMediaId)
  /\ UNCHANGED <<serverVars, cache, accessToken, listVars, mode, listing,
                 fatalError, run, faults, imgSeq, steps, gens, genCalls,
                 uploadCalls, genOk, fails, cachedAtListing, batchOnly,
                 lostWrites, writes, fetchFailed, reported, authOk, lastCall, calls>>

\* "Upload this image to Shopware? (y/n)" after a regeneration
AskConfirm(raw) ==
  /\ pc = "askConfirm"
  /\ LET confirm == Normalize(raw) IN
     /\ Answered(confirm)
     /\ IF confirm # "y"
          THEN FinishItem("skipped", NoError, cache)
          ELSE Goto("createMedia", imageBuffer, stage, mediaId, productMediaId)
  /\ UNCHANGED <<serverVars, cache, accessToken, listVars, mode, listing,
                 fatalError, run, faults, imgSeq, steps, gens, genCalls,
                 uploadCalls, genOk, fails, cachedAtListing, batchOnly,
                 lostWrites, writes, fetchFailed, reported, authOk, lastCall, calls>>

\* shopware.uploadMedia(imageBuffer, ...), step 1
CreateMedia(ok) ==
  /\ pc = "createMedia"
  /\ LET r == CreateMediaOp(accessToken, media, ok) IN
     /\ Fault(~ok)
     /\ NoteFail(IF ok THEN "none" ELSE "create-media")
     /\ uploadCalls' = uploadCalls + 1
     /\ Step("create-media", r.sent)
     /\ media' = r.media
     /\ IF r.err # NoError
          THEN FinishItem("failed", r.err, cache)
          ELSE Goto("uploadBytes", imageBuffer, stage, r.id, productMediaId)
  /\ UNCHANGED <<total, cover, stableTotal, assocs, cache, accessToken, listVars,
                 mode, listing, fatalError, run, imgSeq, gens, answers,
                 genCalls, genOk, cachedAtListing, batchOnly, lostWrites, writes,
                 fetchFailed, reported, authOk, lastCall, calls>>

\* shopware.uploadMedia(imageBuffer, ...), step 2
UploadBytes(ok) ==
  /\ pc = "uploadBytes"
  /\ LET r == UploadBytesOp(media, mediaId, imageBuffer, ok) IN
     /\ Fault(~ok)
     /\ NoteFail(IF ok THEN "none" ELSE "upload-bytes")
     /\ Step("upload-bytes", r.sent)
     /\ media' = r.media
     /\ IF r.err # NoError
          THEN FinishItem("failed", r.err, cache)
          ELSE Goto("createAssoc", imageBuffer, stage, mediaId, productMediaId)
  /\ UNCHANGED <<total, cover, stableTotal, assocs, cache, accessToken, listVars,
                 mode, listing, fatalError, run, imgSeq, gens, answers,
                 genCalls, uploadCalls, genOk, cachedAtListing, batchOnly,
                 lostWrites, writes, fetchFailed, reported, authOk, lastCall, calls>>

\* shopware.assignMediaToProduct(product.id, mediaId), step 1
CreateAssoc(out) ==
  /\ pc = "createAssoc"
  /\ LET r == CreateAssocOp(accessToken, assocs, product, mediaId, out) IN
     /\ Fault(out # "ok")
     /\ NoteFail(IF out = "ok" THEN "none"
                 ELSE IF out = "fail" THEN "create-association" ELSE "location")
     /\ Step("create-association", r.sent)
     /\ assocs' = r.assocs
     /\ IF r.err # NoError
          THEN FinishItem("failed", r.err, cache)
          ELSE Goto("patchCover", imageBuffer, stage, mediaId, r.productMediaId)
  /\ UNCHANGED <<total, cover, stableTotal, media, cache, accessToken, listVars,
                 mode, listing, fatalError, run, imgSeq, gens, answers,
                 genCalls, uploadCalls, genOk, cachedAtListing, batchOnly,
                 lostWrites, writes, fetchFailed, reported, authOk, lastCall, calls>>

\* shopware.assignMediaToProduct(product.id, mediaId), step 2
PatchCover(ok) ==
  /\ pc = "patchCover"
  /\ LET r == PatchCoverOp(cover, product, productMediaId, ok) IN
     /\ Fault(~ok)
     /\ NoteFail(IF ok THEN "none" ELSE "patch-cover")
     /\ Step("patch-cover", r.sent)
     /\ cover' = r.cover
     /\ IF r.err # NoError
          THEN FinishItem("failed", r.err, cache)
          ELSE FinishItem("uploaded", NoError, cache)
  /\ UNCHANGED <<total, stableTotal, media, assocs, cache, accessToken, listVars,
                 mode, listing, fatalError, run, imgSeq, gens, answers,
                 genCalls, uploadCalls, genOk, cachedAtListing, batchOnly,
                 lostWrites, writes, fetchFailed, reported, authOk, lastCall, calls>>

\* The process has ended (summary printed, or the fatal handler ran) and the
\* program is started again: file system and catalog persist.
NewRun(m) ==
  /\ pc \in {"done", "fatal"}
  /\ run < MaxRuns
  /\ run' = run + 1
  /\ mode' = m
  /\ pc' = "authenticate"
  /\ accessToken' = NoToken
  /\ page' = 1
  /\ allProducts' = <<>>
  /\ fetches' = 0
  /\ listing' = NoListing
  /\ i' = 0
  /\ results' = <<>>
  /\ imageBuffer' = Unassigned
  /\ hasExistingImage' = FALSE
  /\ stage' = "none"
  /\ mediaId' = 0
  /\ productMediaId' = 0
  /\ fatalError' = NoError
  /\ steps' = <<>>
  /\ gens' = <<>>
  /\ answers' = <<>>
  /\ genCalls' = 0
  /\ uploadCalls' = 0
  /\ fails' = <<>>
  /\ hadEntry' = <<>>
  /\ cachedAtListing' = {}
  /\ batchOnly' = (batchOnly /\ m = "batch")
  /\ writes' = 0
  /\ fetchFailed' = FALSE
  /\ reported' = NoTotal
  /\ authOk' = FALSE
  /\ UNCHANGED <<serverVars, cache, faults, imgSeq, genOk, lostWrites, lastCall,
                 calls>>

\* ------------------------------------------------------------------ catalogs
\* Catalogs of at most MaxMissing products are run in every mode and any of
\* their products may lack a cover; one more product gives the batch case of
\* all products lacking a cover; the catalogs of the pagination cases lack
\* covers at the page borders and are run unattended.
Small(T) == T <= MaxMissing
BatchCase(T) == T = MaxMissing + 1

Candidates(T) ==
  IF T <= MaxMissing + 1 THEN 1..T ELSE {1, limit, limit + 1, T} \cap 1..T

Sizes == Totals \cup 0..(MaxMissing + 1)

StartModes(T) ==
  IF Small(T) THEN Modes ELSE IF BatchCase(T) THEN {"batch"}
  ELSE {"batch", "dryRun"}

MissingSets(T) ==
  IF BatchCase(T) THEN {1..T}
  ELSE {M \in SUBSET Candidates(T) : Cardinality(M) <= MaxMissing}

CachedSets(T, M) == IF Small(T) \/ BatchCase(T) THEN SUBSET M ELSE {{}}

InitWith(T, M, K, stable) ==
  /\ total = T
  /\ cover = [p \in 1..T |-> IF p \in M THEN NullCover ELSE PreCover]
  /\ stableTotal = stable
  /\ media = <<>>
  /\ assocs = <<>>
  /\ cache = [p \in 1..T |-> IF p \in K THEN OldImage ELSE NoEntry]
  /\ accessToken = NoToken
  /\ page = 1
  /\ allProducts = <<>>
  /\ fetches = 0
  /\ listing = NoListing
  /\ i = 0
  /\ results = <<>>
  /\ imageBuffer = Unassigned
  /\ hasExistingImage = FALSE
  /\ stage = "none"
  /\ mediaId = 0
  /\ productMediaId = 0
  /\ fatalError = NoError
  /\ run = 1
  /\ faults = 0
  /\ imgSeq = OldImage
  /\ steps = <<>>
  /\ gens = <<>>
  /\ answers = <<>>
  /\ genCalls = 0
  /\ uploadCalls = 0
  /\ genOk = [p \in 1..T |-> 0]
  /\ fails = <<>>
  /\ hadEntry = <<>>
  /\ cachedAtListing = {}
  /\ lostWrites = [p \in 1..T |-> 0]
  /\ writes = 0
  /\ fetchFailed = FALSE
  /\ reported = NoTotal
  /\ authOk = FALSE
  /\ lastCall = NoCall
  /\ calls = 0

Init ==
  \E T \in Sizes :
    \E M \in MissingSets(T) :
      \E K \in CachedSets(T, M) :
        /\ InitWith(T, M, K, TRUE)
        /\ mode \in StartModes(T)
        /\ batchOnly = (mode = "batch")
        /\ pc = "authenticate"

Next ==
  \/ \E resp \in AuthResponses : Authenticate(resp)
  \/ \E resp \in PageResponses : FetchPage(resp)
  \/ \E out \in GenOutcomes, wout \in WriteOutcomes : Generate(out, wout)
  \/ \E raw \in RawAnswers : AskExisting(raw)
  \/ \E raw \in RawAnswers : AskGenerate(raw)
  \/ \E raw \in RawAnswers : AskUpload(raw)
  \/ \E raw \in RawAnswers : AskConfirm(raw)
  \/ \E ok \in BOOLEAN : CreateMedia(ok)
  \/ \E ok \in BOOLEAN : UploadBytes(ok)
  \/ \E out \in AssocOutcomes : CreateAssoc(out)
  \/ \E ok \in BOOLEAN : PatchCover(ok)
  \/ \E m \in (IF Small(total) THEN Modes ELSE {mode}) : NewRun(m)

Spec == Init /\ [][Next]_vars

\* --------------------------------------------------------- the listing alone
\* A dry run against a server that may report any total on any page: main up
\* to the return of fetchAllProducts.  Every awaited request is answered.
InitListing ==
  \E T \in Sizes :
    \E M \in MissingSets(T) :
      \E stable \in BOOLEAN :
        /\ InitWith(T, M, {}, stable)
        /\ mode = "dryRun"
        /\ batchOnly = FALSE
        /\ pc = "authenticate"

NextListing ==
  \/ \E resp \in AuthResponses : Authenticate(resp)
  \/ \E resp \in PageResponses : FetchPage(resp)

SpecListing == InitListing /\ [][NextListing]_vars /\ WF_vars(NextListing)

\* ------------------------------------------------- the client, call by call
\* The methods of ShopwareClient called in any order by a caller that awaits
\* each call: one action is one complete method call.

\* fetchAllProducts against a catalog of T products with covers cov, whose
\* page failAt (if any) is answered with a non-success status.
RECURSIVE FetchAllOp(_, _, _, _, _, _, _)
FetchAllOp(tok, T, cov, pg, acc, sent, failAt) ==
  LET resp == IF pg = failAt THEN [ok |-> FALSE, total |-> 0, data |-> <<>>]
              ELSE [ok |-> TRUE, total |-> T, data |-> PageData(T, cov, pg)]
      r == FetchPageOp(tok, acc, resp)
  IN  IF r.err # NoError
        THEN [err |-> r.err, sent |-> sent + r.sent, result |-> NoListing]
      ELSE IF r.done
        THEN [err |-> NoError, sent |-> sent + r.sent,
              result |-> ListingResult(r.acc)]
      ELSE FetchAllOp(tok, T, cov, pg + 1, r.acc, sent + r.sent, failAt)

\* uploadMedia: step 1, then step 2 with this.accessToken as it is.
UploadMediaOp(tok, med, bytes, ok1, ok2) ==
  LET c == CreateMediaOp(tok, med, ok1) IN
  IF c.err # NoError THEN c
  ELSE LET u == UploadBytesOp(c.media, c.id, bytes, ok2) IN
       [err |-> u.err, sent |-> c.sent + u.sent, media |-> u.media,
        id |-> IF u.err = NoError THEN c.id ELSE 0]

\* assignMediaToProduct: step 1, the location header, then step 2.
AssignOp(tok, asc, cov, productId, mId, out, ok) ==
  LET a == CreateAssocOp(tok, asc, productId, mId, out) IN
  IF a.err # NoError
    THEN [err |-> a.err, sent |-> a.sent, assocs |-> a.assocs, cover |-> cov]
  ELSE LET c == PatchCoverOp(cov, productId, a.productMediaId, ok) IN
       [err |-> c.err, sent |-> a.sent + c.sent, assocs |-> a.assocs,
        cover |-> c.cover]

Called(op, err, sent) ==
  /\ calls < MaxCalls
  /\ calls' = calls + 1
  /\ lastCall' = [op |-> op, authed |-> authOk, err |-> err, sent |-> sent]

CallAuthenticate(resp) ==
  /\ pc = "client"
  /\ LET r == AuthenticateOp(accessToken, resp) IN
     /\ Called("authenticate", r.err, 1)
     /\ accessToken' = r.token
     /\ authOk' = (authOk \/ resp.ok)
  /\ UNCHANGED <<serverVars, cache, listVars, mainVars, bookVars, steps, gens,
                 answers, fails, hadEntry, cachedAtListing, batchOnly,
                 lostWrites, writes, fetchFailed, reported>>

CallFetchAllProducts(failAt) ==
  /\ pc = "client"
  /\ LET r == FetchAllOp(accessToken, total, cover, 1, <<>>, 0, failAt) IN
     /\ Called("fetchAllProducts", r.err, r.sent)
     /\ listing' = r.result
     /\ fetches' = r.sent
  /\ UNCHANGED <<serverVars, cache, accessToken, page, allProducts, mode, pc, i,
                 results, imageBuffer, hasExistingImage, stage, mediaId,
                 productMediaId, fatalError, bookVars, obsVars>>

CallUploadMedia(bytes, ok1, ok2) ==
  /\ pc = "client"
  /\ LET r == UploadMediaOp(accessToken, media, bytes, ok1, ok2) IN
     /\ Called("uploadMedia", r.err, r.sent)
     /\ media' = r.media
     /\ mediaId' = r.id
  /\ UNCHANGED <<total, cover, stableTotal, assocs, cache, accessToken, listVars,
                 mode, pc, listing, i, results, imageBuffer, hasExistingImage,
                 stage, productMediaId, fatalError, bookVars, obsVars>>

CallAssignMediaToProduct(productId, mId, out, ok) ==
  /\ pc = "client"
  /\ LET r == AssignOp(accessToken, assocs, cover, productId, mId, out, ok) IN
     /\ Called("assignMediaToProduct", r.err, r.sent)
     /\ assocs' = r.assocs
     /\ cover' = r.cover
  /\ UNCHANGED <<total, stableTotal, media, cache, accessToken, listVars,
                 mainVars, bookVars, obsVars>>

InitClient ==
  \E T \in {1, limit + 1} :
    \E M \in SUBSET {1, T} :
      /\ InitWith(T, M, {}, TRUE)
      /\ mode = "batch"
      /\ batchOnly = TRUE
      /\ pc = "client"

NextClient ==
  \/ \E resp \in AuthResponses : CallAuthenticate(resp)
  \/ \E failAt \in 0..2 : CallFetchAllProducts(failAt)
  \/ \E bytes \in {EmptyBuf, OldImage}, ok1 \in BOOLEAN, ok2 \in BOOLEAN :
       CallUploadMedia(bytes, ok1, ok2)
  \/ \E productId \in {1, total}, mId \in {1, Len(media)} \ {0},
        out \in AssocOutcomes, ok \in BOOLEAN :
       CallAssignMediaToProduct(productId, mId, out, ok)

SpecClient == InitClient /\ [][NextClient]_vars

\* ================================================================ properties
n == Len(withoutImages)
Listed == listing # NoListing
Uploading == Listed /\ mode # "dryRun" /\ n > 0
CeilDiv(a, b) == (a + b - 1) \div b
ProtocolOrder ==
  <<"create-media", "upload-bytes", "create-association", "patch-cover">>
\* The items at whose first prompt the operator answered q.
QuitItems == {k \in 1..Len(answers) : answers[k] # <<>> /\ answers[k][1] = "q"}
Quit == QuitItems # {}
ResultsFor(p) == {j \in 1..Len(results) : results[j].productId = p}
AssociationsOf(p) == {a \in 1..Len(assocs) : assocs[a].productId = p}

\* The message the code throws for a failing external answer.
FailMsg(f) ==
  CASE f = "generate-api" -> ApiErrorMsg
    [] f = "generate-nodata" -> NoImageDataMsg
    [] f = "write" -> WriteErrorMsg
    [] f = "create-media" -> CreateMediaFailedMsg
    [] f = "upload-bytes" -> UploadFailedMsg
    [] f = "create-association" -> AssocFailedMsg
    [] f = "location" -> NoLocationMsg
    [] f = "patch-cover" -> CoverFailedMsg
    [] OTHER -> NoError

\* The number of protocol requests sent when the answer f is the failing one.
StepsUpTo(f) ==
  CASE f = "create-media" -> 1
    [] f = "upload-bytes" -> 2
    [] f \in {"create-association", "location"} -> 3
    [] f = "patch-cover" -> 4
    [] OTHER -> 0

\* ---- C1 as claimed: with a constant total T in {0, 1, P, P+1, 2P-1, 2P} the
\* listing accumulates T items and returns after exactly ceil(T/P) page fetches.
C1_AsClaimed ==
  (Listed /\ stableTotal /\ total \in Totals) =>
    /\ listing.total = total
    /\ Len(allProducts) = total
    /\ fetches = CeilDiv(total, limit)

\* ---- C1 (amended): with a constant total T in {0, 1, P, P+1, 2P-1, 2P} the
\* listing accumulates exactly T items and returns after exactly ceil(T/P) page
\* fetches, except that the empty catalog (T = 0) costs one fetch; while the
\* listing runs it has sent fewer fetches than that.
C1_PaginationCompleteness ==
  (stableTotal /\ total \in Totals /\ ~fetchFailed) =>
    LET pages == IF total = 0 THEN 1 ELSE CeilDiv(total, limit) IN
    /\ Listed => /\ listing.total = total
                 /\ Len(allProducts) = total
                 /\ fetches = pages
    /\ pc = "fetch" => fetches < pages /\ Len(allProducts) = fetches * limit

C1_Witness ==
  Listed /\ total = 2 * limit - 1 /\ fetches = 2 /\ listing.total = total

\* ---- C2: when a step of an item throws (generation, cache write, any step of
\* the upload protocol), exactly one result, 'failed' with the thrown message,
\* is recorded for that item and the loop has gone on to the next item; the
\* loop ends only after the last item or on a quit.
C2_FailureIsolation ==
  Uploading =>
    /\ \A k \in 1..n :
         fails[k] # "none" =>
           /\ i > k
           /\ Len(results) >= k
           /\ results[k] = Record(withoutImages[k], "failed", FailMsg(fails[k]))
           /\ Cardinality(ResultsFor(withoutImages[k])) = 1
    /\ (pc = "done" /\ ~Quit) => i = n + 1

C2_Witness ==
  /\ Uploading /\ n = 2 /\ Len(results) = 2
  /\ fails[1] = "write"
  /\ results[1].status = "failed"
  /\ results[2].status = "uploaded"

\* ---- C3: the requests of one item are a prefix of create-media,
\* upload-bytes, create-association, patch-cover, each sent at most once; the
\* request that fails is the last one sent, and a failed upload-bytes surfaces
\* the upload error with no create-association sent.
C3_ProtocolOrdering ==
  Uploading =>
    \A k \in 1..n :
      /\ IsPrefix(steps[k], ProtocolOrder)
      /\ StepsUpTo(fails[k]) > 0 => Len(steps[k]) = StepsUpTo(fails[k])
      /\ fails[k] \in {"generate-api", "generate-nodata", "write"} =>
           steps[k] = <<>>
      /\ fails[k] = "upload-bytes" =>
           /\ steps[k] = <<"create-media", "upload-bytes">>
           /\ Len(results) >= k
           /\ results[k].error = UploadFailedMsg
           /\ \A a \in 1..Len(assocs) : media[assocs[a].mediaId] # NoBytes

C3_Witness ==
  Uploading /\ \E k \in 1..n : fails[k] = "upload-bytes" /\ k < i

\* ---- C4: a batch run in which no external call fails ends with one
\* 'uploaded' result per item lacking an image, after one generation call per
\* item without a cache entry and one upload-protocol invocation per item.
C4_BatchEndToEnd ==
  (pc = "done" /\ Listed /\ mode = "batch" /\ \A k \in 1..n : fails[k] = "none") =>
    /\ Len(results) = n
    /\ \A k \in 1..n : results[k] = Record(withoutImages[k], "uploaded", NoError)
    /\ genCalls = n - Cardinality(cachedAtListing)
    /\ uploadCalls = n

C4_Witness ==
  /\ pc = "done" /\ Listed /\ mode = "batch"
  /\ n = 3 /\ Cardinality(cachedAtListing) = 1
  /\ \A k \in 1..n : fails[k] = "none" /\ results[k].status = "uploaded"
  /\ genCalls = 2 /\ uploadCalls = 3

\* The loop has stopped at item k: the results are those of items 1..k-1, and
\* items k..n have no result, no generation call and no upload request.
StoppedAt(k) ==
  /\ pc = "done" /\ mode = "interactive" /\ i = k
  /\ Len(results) = k - 1
  /\ \A j \in 1..(k - 1) : results[j].productId = withoutImages[j]
  /\ \A j \in k..n :
       /\ ResultsFor(withoutImages[j]) = {}
       /\ gens[j] = 0
       /\ steps[j] = <<>>

\* ---- C5 as claimed: whenever the operator has answered q on item k, at any
\* of its prompts, the loop has stopped at item k.
C5_AsClaimed ==
  \A k \in 1..Len(answers) : "q" \in Range(answers[k]) => StoppedAt(k)

\* ---- C5 (amended): when the operator answers q at the first prompt of item
\* k (the generate prompt or the image-exists prompt) the loop has stopped at
\* item k; a q at a later prompt of the item (the upload prompt or the
\* confirmation after a regeneration) records the item 'skipped' instead.
C5_InteractiveQuit ==
  \A k \in 1..Len(answers) :
    /\ k \in QuitItems => StoppedAt(k)
    /\ (k \notin QuitItems /\ "q" \in Range(answers[k])) =>
         /\ i > k
         /\ Len(results) >= k
         /\ results[k] = Record(withoutImages[k], "skipped", NoError)

C5_Witness ==
  /\ QuitItems = {2} /\ n = 2 /\ pc = "done"
  /\ Len(results) = 1 /\ results[1].status = "uploaded"

\* ---- C6: the result log holds one result per finished item, in item order,
\* with status uploaded, skipped or failed, never two for one item; within a
\* run it only grows by appending.
C6_State ==
  /\ ~Listed => results = <<>>
  /\ Listed =>
       /\ Len(results) <= n
       /\ Len(results) = (IF i = 0 THEN 0 ELSE i - 1)
       /\ \A j \in 1..Len(results) :
            /\ results[j].productId = withoutImages[j]
            /\ results[j].status \in {"uploaded", "skipped", "failed"}
            /\ Cardinality(ResultsFor(withoutImages[j])) = 1
       /\ (pc = "done" /\ ~Quit /\ Uploading) => Len(results) = n

C6_OneResultPerItem ==
  /\ []C6_State
  /\ [][run' = run => IsPrefix(results, results')]_vars

C6_Witness ==
  /\ pc = "done" /\ n = 2 /\ Len(results) = 2
  /\ results[1].status = "skipped"
  /\ results[2].status = "failed"

\* ---- C7 as claimed: for every product at most one product-media association
\* is ever created, within one run and across successive runs.
C7_AtMostOneAssociation ==
  \A p \in 1..total : Cardinality(AssociationsOf(p)) <= 1

\* ---- C8 (the parts about one visit): in batch mode the generation service
\* is called for an item iff no cache entry existed when the item was reached,
\* and no upload request is sent for an item whose cache entry is missing.
C8_Visit ==
  (Listed /\ mode = "batch") =>
    \A k \in 1..n :
      /\ k < i => gens[k] = (IF hadEntry[k] THEN 0 ELSE 1)
      /\ (k = i /\ pc = "generate") => gens[k] = 0 /\ ~hadEntry[k]
      /\ (k = i /\ pc # "generate") => gens[k] = (IF hadEntry[k] THEN 0 ELSE 1)
      /\ k > i => gens[k] = 0
      /\ steps[k] # <<>> => cache[withoutImages[k]] # NoEntry

\* ---- C8 as claimed: the visit parts, and across batch runs every item is
\* successfully generated at most once.
C8_AsClaimed ==
  /\ C8_Visit
  /\ batchOnly => \A p \in 1..total : genOk[p] <= 1

\* ---- C8 (amended): the visit parts, and across batch runs an item is
\* successfully generated at most once more than the number of its cache
\* writes that failed leaving no file.
C8_ResumableCache ==
  /\ C8_Visit
  /\ batchOnly => \A p \in 1..total : genOk[p] <= 1 + lostWrites[p]

C8_Witness ==
  /\ run = 2 /\ batchOnly /\ Listed
  /\ \E k \in 1..n :
       /\ k < i /\ hadEntry[k] /\ gens[k] = 0
       /\ genOk[withoutImages[k]] = 1
       /\ steps[k] # <<>>

\* ---- C9: a listing, uploadMedia or assignMediaToProduct called while no
\* authenticate() has succeeded fails with the not-authenticated error and
\* sends no request, so the catalog is untouched; authenticate() calls that
\* fail leave the client without a token.
C9_SessionPrecondition ==
  /\ (lastCall.op \in {"fetchAllProducts", "uploadMedia", "assignMediaToProduct"}
        /\ ~lastCall.authed) =>
       /\ lastCall.err = NotAuthMsg
       /\ lastCall.sent = 0
  /\ ~authOk =>
       /\ Falsy(accessToken)
       /\ media = <<>> /\ assocs = <<>> /\ fetches = 0
       /\ listing = NoListing

C9_Witness ==
  /\ calls = 3 /\ ~authOk
  /\ lastCall = [op |-> "uploadMedia", authed |-> FALSE, err |-> NotAuthMsg,
                 sent |-> 0]

\* ---- C10: once a page fetch of the listing has failed the run has ended
\* with that error: no listing was returned, and there is no generation call,
\* cache write, upload-protocol step or result.
C10_ListingFailureFatal ==
  fetchFailed =>
    /\ pc = "fatal" /\ fatalError = FetchFailedMsg
    /\ listing = NoListing
    /\ results = <<>>
    /\ genCalls = 0 /\ writes = 0 /\ uploadCalls = 0
    /\ steps = <<>>

C10_Witness ==
  /\ fetchFailed /\ pc = "fatal"
  /\ Len(allProducts) = limit
  /\ \E k \in 1..Len(allProducts) : allProducts[k].coverId = NullCover

\* The products accumulated by the listing, and those whose cover was set by
\* this run.
Accumulated == {allProducts[k].id : k \in 1..Len(allProducts)}
CoveredByThisRun ==
  {results[j].productId : j \in {j \in 1..Len(results) : results[j].status = "uploaded"}}

\* ---- C11: the list of products without images returned by the listing holds
\* a product iff it was accumulated and its coverId was null when it was
\* listed, each such product once; a product that has a cover is never in the
\* list, and nothing is generated, cached or associated for it.
C11_FilterCorrectness ==
  /\ Listed =>
       /\ \A p \in 1..total :
            p \in Range(withoutImages) <=>
              /\ p \in Accumulated
              /\ cover[p] = NullCover \/ p \in CoveredByThisRun
       /\ \A j, k \in 1..n : withoutImages[j] = withoutImages[k] => j = k
       /\ \A k \in 1..Len(allProducts) :
            allProducts[k].coverId # NullCover =>
              allProducts[k].id \notin Range(withoutImages)
  /\ \A p \in 1..total :
       cover[p] = PreCover =>
         /\ genOk[p] = 0
         /\ cache[p] = NoEntry
         /\ AssociationsOf(p) = {}

C11_Witness ==
  /\ pc = "done" /\ mode = "batch" /\ total = 2 * limit
  /\ withoutImages = <<limit, limit + 1>>
  /\ Len(results) = 2
  /\ results[1].status = "uploaded" /\ results[2].status = "uploaded"
  /\ cover[1] = PreCover /\ cover[2 * limit] = PreCover

\* The positions of main inside the upload protocol of the current item.
UploadPcs == {"createMedia", "uploadBytes", "createAssoc", "patchCover"}
\* The upload protocol has been invoked for item k.
UploadInvoked(k) == steps[k] # <<>> \/ (k = i /\ pc \in UploadPcs)
LastAnswer(k) == answers[k][Len(answers[k])]
\* The last answer for item k was given to an upload prompt: the image-exists
\* prompt, the upload prompt after a generation, or the confirmation.
AtUploadPrompt(k) ==
  answers[k] # <<>> /\ (hadEntry[k] \/ Len(answers[k]) >= 2)

\* ---- C12: in interactive mode the upload protocol is invoked for an item
\* only if the operator's last answer for it was y at an upload prompt; after
\* an answer n at any prompt the item is recorded 'skipped', no upload request
\* was sent for it and the loop has gone on to the next item.
C12_InteractiveConsent ==
  (Listed /\ mode = "interactive") =>
    \A k \in 1..n :
      /\ UploadInvoked(k) => AtUploadPrompt(k) /\ LastAnswer(k) = "y"
      /\ (answers[k] # <<>> /\ LastAnswer(k) = "n") =>
           /\ i > k
           /\ Len(results) >= k
           /\ results[k] = Record(withoutImages[k], "skipped", NoError)
           /\ steps[k] = <<>>
           /\ ~UploadInvoked(k)

C12_Witness ==
  /\ mode = "interactive" /\ pc = "done" /\ n = 2 /\ Len(results) = 2
  /\ ~hadEntry[1] /\ answers[1] = <<"y", "r", "n">> /\ gens[1] = 2
  /\ results[1].status = "skipped" /\ steps[1] = <<>>
  /\ answers[2] = <<"y">> /\ hadEntry[2] /\ results[2].status = "uploaded"

\* The positions of main at an operator prompt.
PromptPcs == {"askExisting", "askGenerate", "askUpload", "askConfirm"}

\* ---- C13: in a batch run no operator prompt is issued and no result is
\* 'skipped'; when the run ends after the listing there is one result per item
\* lacking an image, each 'uploaded' or 'failed', whichever external calls
\* failed.
C13_BatchNeverSkips ==
  mode = "batch" =>
    /\ pc \notin PromptPcs
    /\ \A k \in 1..Len(answers) : answers[k] = <<>>
    /\ \A j \in 1..Len(results) : results[j].status \in {"uploaded", "failed"}
    /\ (pc = "done" /\ Listed) =>
         /\ Len(results) = n
         /\ \A k \in 1..n : results[k].productId = withoutImages[k]

C13_Witness ==
  /\ mode = "batch" /\ pc = "done" /\ n = 3 /\ Len(results) = 3
  /\ fails[1] = "generate-nodata" /\ results[1].status = "failed"
  /\ results[2].status = "uploaded"
  /\ fails[3] = "patch-cover" /\ results[3].status = "failed"

\* ---- C14: in every run a page query of the listing is sent only after
\* authenticate() has succeeded, and generation calls, cache writes, upload
\* requests and results come only after the listing has returned; when
\* authenticate() fails the run has ended with that error, with no listing
\* query, no generation, no upload and no result.
C14_AuthenticationFirst ==
  /\ pc = "authenticate" => fetches = 0 /\ ~Listed
  /\ fetches > 0 => authOk /\ ~Falsy(accessToken)
  /\ ~Listed =>
       /\ genCalls = 0 /\ writes = 0 /\ uploadCalls = 0
       /\ steps = <<>> /\ results = <<>>
       /\ pc \in {"authenticate", "fetch", "fatal"}
  /\ (pc # "authenticate" /\ ~authOk) =>
       /\ pc = "fatal" /\ fatalError = AuthFailedMsg
       /\ fetches = 0 /\ ~Listed
       /\ genCalls = 0 /\ writes = 0 /\ uploadCalls = 0
       /\ steps = <<>> /\ results = <<>>

C14_Witness ==
  /\ run = 2 /\ pc = "fatal" /\ ~authOk /\ fatalError = AuthFailedMsg
  /\ fetches = 0 /\ results = <<>>
  /\ \E p \in 1..total : cover[p] = NullCover /\ cache[p] # NoEntry

\* On the server, product p has as its cover an association of p with a media
\* entity that holds uploaded bytes.
CoverSet(p) ==
  /\ cover[p] \in AssociationsOf(p)
  /\ assocs[cover[p]].mediaId \in 1..Len(media)
  /\ media[assocs[cover[p]].mediaId] # NoBytes

\* ---- C15: an item's result is 'uploaded' only if in this run its four
\* protocol requests were sent and all succeeded, so that the product's cover
\* is an association of that product with its uploaded media; and whenever the
\* four requests of a finished item succeeded its result is 'uploaded'.
C15_UploadedMeansCoverSet ==
  Uploading =>
    \A k \in 1..Len(results) :
      /\ results[k].status = "uploaded" =>
           /\ steps[k] = ProtocolOrder
           /\ fails[k] = "none"
           /\ results[k].error = NoError
           /\ CoverSet(results[k].productId)
      /\ (steps[k] = ProtocolOrder /\ fails[k] = "none") =>
           results[k].status = "uploaded"

C15_Witness ==
  /\ Uploading /\ pc = "done" /\ n = 2 /\ Len(results) = 2
  /\ fails[1] = "patch-cover" /\ results[1].status = "failed"
  /\ steps[1] = ProtocolOrder /\ ~CoverSet(withoutImages[1])
  /\ results[2].status = "uploaded" /\ CoverSet(withoutImages[2])

\* The number of products on page pg as the server serves it.
PageLen(pg) == Len(PageData(total, cover, pg))

\* ---- C16: while the listing loop goes on, the last page fetched was full
\* and fewer products are accumulated than the total it reported; the listing
\* returns at the first short page, whatever total the server reports, or when
\* the accumulated count reaches the reported total; it sends at most one
\* query more than the catalog has full pages, and every listing terminates.
C16_State ==
  /\ (pc = "fetch" /\ fetches > 0) =>
       /\ PageLen(fetches) = limit
       /\ Len(allProducts) < reported
  /\ Listed =>
       /\ \A pg \in 1..(fetches - 1) : PageLen(pg) = limit
       /\ PageLen(fetches) < limit \/ Len(allProducts) >= reported
       /\ Len(allProducts) = Min(fetches * limit, total)
  /\ fetches <= total \div limit + 1
  /\ stableTotal => fetches <= (IF total = 0 THEN 1 ELSE CeilDiv(total, limit))

C16_ListingTerminates ==
  /\ []C16_State
  /\ <>(pc \in {"done", "fatal"})

C16_Witness ==
  /\ Listed /\ ~stableTotal /\ total = limit + 1
  /\ fetches = 2 /\ reported = 2 * limit
  /\ Len(allProducts) = limit + 1 /\ PageLen(2) = 1

\* The positions j of the answers of item k that were given to the
\* confirmation prompt: the answer that follows a regeneration.
ConfirmAnswers(k) ==
  {j \in 2..Len(answers[k]) : answers[k][j - 1] = "r"}

\* ---- C17: in interactive mode at most two generation calls are made for
\* one item in one run, the second only as a regeneration; the answer to the
\* confirmation after a regeneration is the item's last answer, and when it is
\* not y (also when it is r or q) the item is recorded 'skipped' with no
\* further generation call and no upload request, and the loop has gone on.
C17_RegenerationDoesNotLoop ==
  (Listed /\ mode = "interactive") =>
    \A k \in 1..n :
      /\ gens[k] <= (IF hadEntry[k] THEN 1 ELSE 2)
      /\ gens[k] = 2 => "r" \in Range(answers[k])
      /\ Len(answers[k]) <= 3
      /\ \A j \in ConfirmAnswers(k) :
           /\ j = Len(answers[k])
           /\ gens[k] = (IF hadEntry[k] THEN 1 ELSE 2)
           /\ answers[k][j] # "y" =>
                /\ i > k
                /\ Len(results) >= k
                /\ results[k] = Record(withoutImages[k], "skipped", NoError)
                /\ steps[k] = <<>>

C17_Witness ==
  /\ mode = "interactive" /\ n = 2 /\ i = 2 /\ pc \in PromptPcs
  /\ answers[1] = <<"y", "r", "q">> /\ gens[1] = 2
  /\ results = <<Record(withoutImages[1], "skipped", NoError)>>

\* While the upload protocol runs for the current item, the cache holds an
\* entry for it and imageBuffer is the content of that entry.
UploadsCachedBytes ==
  (Uploading /\ pc \in UploadPcs) =>
    /\ cache[product] # NoEntry
    /\ imageBuffer = cache[product]
    /\ mediaId # 0 => media[mediaId] \in {NoBytes, imageBuffer}

\* ---- C18 as claimed: whenever the upload protocol is invoked for an item,
\* the cache holds an entry for it and the bytes passed to the upload are the
\* content of that entry; an empty buffer is never uploaded.
C18_UploadedBytesAreCachedBytes ==
  /\ UploadsCachedBytes
  /\ (Uploading /\ pc \in UploadPcs) => imageBuffer # EmptyBuf
  /\ \A m \in 1..Len(media) : media[m] # EmptyBuf

\* The answers of the generation service on which generate() throws.
GenFailures == {"generate-api", "generate-nodata"}

\* ---- C19: a step in which a generation or regeneration call fails leaves
\* the cache (and the catalog) exactly as it was and records the item
\* 'failed' with the thrown message; no upload request is ever sent for an
\* item whose generation failed, and the loop has gone on.
C19_FailedGenerationChangesNothing ==
  /\ [][(pc = "generate" /\ fails'[i] \in GenFailures) =>
          /\ cache' = cache
          /\ media' = media /\ assocs' = assocs /\ cover' = cover
          /\ steps' = steps
          /\ results' = Append(results,
                               Record(product, "failed", FailMsg(fails'[i])))]_vars
  /\ [](Uploading =>
          \A k \in 1..n :
            fails[k] \in GenFailures =>
              /\ steps[k] = <<>>
              /\ i > k
              /\ Len(results) >= k
              /\ results[k].status = "failed"
              /\ gens[k] = 1 =>
                   (hadEntry[k] <=> cache[withoutImages[k]] # NoEntry))

C19_Witness ==
  /\ mode = "interactive" /\ Listed /\ n = 2 /\ i = 2
  /\ hadEntry[1] /\ answers[1] = <<"r">> /\ fails[1] = "generate-api"
  /\ cache[withoutImages[1]] = OldImage
  /\ results = <<Record(withoutImages[1], "failed", ApiErrorMsg)>>
  /\ steps[1] = <<>>

\* ---- C20: when the create-association request succeeds without a usable
\* location identifier, no cover patch is sent; the item is recorded 'failed'
\* with the missing-identifier error, the product's cover stays null, and the
\* association and the uploaded media stay on the server: no step ever
\* removes an association or a media entity.
C20_AssociationWithoutIdentifier ==
  /\ [](Uploading =>
          \A k \in 1..n :
            fails[k] = "location" =>
              /\ steps[k] =
                   <<"create-media", "upload-bytes", "create-association">>
              /\ i > k
              /\ Len(results) >= k
              /\ results[k] = Record(withoutImages[k], "failed", NoLocationMsg)
              /\ cover[withoutImages[k]] = NullCover
              /\ \E a \in AssociationsOf(withoutImages[k]) :
                   /\ assocs[a].mediaId \in 1..Len(media)
                   /\ media[assocs[a].mediaId] # NoBytes)
  /\ [][IsPrefix(assocs, assocs') /\ Len(media') >= Len(media)]_vars

C20_Witness ==
  /\ Uploading /\ pc = "done" /\ n = 2 /\ Len(results) = 2
  /\ fails[1] = "location" /\ results[1].error = NoLocationMsg
  /\ cover[withoutImages[1]] = NullCover
  /\ Cardinality(AssociationsOf(withoutImages[1])) = 1
  /\ results[2].status = "uploaded"
====
